---- MODULE Spec2Model ----
(***************************************************************************)
(* Flexible job shop (assignment/atomicdevs.py, environment.py, system.py) *)
(* as a classic-DEVS state machine: a Generator, a Router (FIFO or         *)
(* priority), the Machines and a Sink, coupled as in FlexibleJobShop.      *)
(*                                                                         *)
(* One action is one round of the simulation kernel: the imminent model    *)
(* emits its output, makes its internal transition, and every model that   *)
(* received the output makes its external transition.  Products are        *)
(* shared mutable objects: `prods` is the heap (product id -> fields).     *)
(* Times are integers; the time unit is arbitrary.                         *)
(***************************************************************************)
EXTENDS Integers, Sequences, FiniteSets, TLC

VARIABLES
    clock,        \* kernel: simulation time of the last round
    time_last,    \* kernel: model name -> time of its last transition
    time_next,    \* kernel: model name -> time of its next internal event
    prods,        \* heap of Product objects, indexed by product id (creation order)
    generator,    \* GeneratorState
    router,       \* RouterState
    machine,      \* machine id -> MachineState
    sink,         \* SinkState.products
    fault,        \* the ValueError a Machine raised, or NoFault
    strategy,     \* dispatching_strategy of FlexibleJobShop
    max_wait_duration,       \* constructor parameter of every Machine
    routing_time_per_size,   \* constructor parameter of the Router
    entered,      \* history: product id -> clock when it first entered the router
    requeued,     \* history: product id -> clock when it last entered the router queue
    queue_integral,  \* history: integral of the router's queue length over [0, clock]
    committed_at, \* history: clock when the dispatch now in flight was committed
    output,       \* history: what the imminent model's outputFnc returned this round
    deliveries,   \* history: product id -> number of times the router emitted it to a machine
    inbox,        \* open-machine specification: the product on a machine's in_product port
    waiting_products,  \* selection specification: argument of _selectProduct
    chosen        \* selection specification: result of _selectProduct

vars == << clock, time_last, time_next, prods, generator, router, machine, sink, fault,
           strategy, max_wait_duration, routing_time_per_size, entered,
           requeued, queue_integral, committed_at, output, deliveries,
           inbox, waiting_products, chosen >>

----------------------------------------------------------------------------
(* Bounds of the model *)

MaxProducts == 3

(* Values the model uses for Python's None / math.inf *)
math_inf == 1000
None == -1
NoProduct == 0
NoTarget == "NONE"
NoFault == [kind |-> "none", machine_id |-> "NONE", product |-> NoProduct]
NoOutput == [model |-> "NONE", out_target |-> NoTarget,
             out_product |-> << >>, out_capacity |-> << >>]

STRATEGY_FIFO == 0
STRATEGY_PRIORITY == 1

(* FlexibleJobShop's configuration; durations are scaled to small integers *)
machine_names == << "A", "B" >>
machine_capacities == [A |-> 2, B |-> 3]
gen_types == <<
    [product_type |-> 0, size |-> 1, recipe |-> << "A", "B" >>,
     processing_times |-> [A |-> 3, B |-> 2]],
    [product_type |-> 1, size |-> 2, recipe |-> << "B", "A" >>,
     processing_times |-> [A |-> 4, B |-> 3]] >>

Machines == { machine_names[i] : i \in 1..Len(machine_names) }
Strategies == { STRATEGY_FIFO, STRATEGY_PRIORITY }
MaxWaitDurations == { 0, 10 }
RoutingTimes == { 0, 1, 2 }
GenDelays == { 0, 1, 2 }

Max(a, b) == IF a >= b THEN a ELSE b
InSeq(ps, p) == \E k \in 1..Len(ps) : ps[k] = p
TimeAdd(t, d) == IF d >= math_inf THEN math_inf ELSE t + d

----------------------------------------------------------------------------
(* Product *)

Product(product_type, size, recipe, processing_times, arrival_time) ==
    [product_type |-> product_type, size |-> size, recipe |-> recipe,
     processing_times |-> processing_times, arrival_time |-> arrival_time,
     current_step |-> 0, router_entry_time |-> 0, is_spoiled |-> FALSE]

----------------------------------------------------------------------------
(* Router *)

RouterState_init ==
    [queue |-> << >>,
     machine_remaining |-> [m \in Machines |-> machine_capacities[m]],
     machine_batch_type |-> [m \in Machines |-> None],
     dispatch_product |-> NoProduct,
     dispatch_target |-> NoTarget,
     routing_remaining |-> math_inf,
     current_time |-> 0,
     last_time |-> 0,
     total_queue_area |-> 0]

update_queue_area(st, now) ==
    [st EXCEPT !.total_queue_area = @ + Len(st.queue) * (now - st.last_time),
               !.last_time = now]

(* "Advance time" of both router transitions: now = current_time + dt *)
AdvanceRouter(st, dt) ==
    [update_queue_area(st, st.current_time + dt) EXCEPT !.current_time = @ + dt]

(* Seeded fault: the recipe is always read at its first step *)
next_destination_first(product) ==
    IF product.current_step < Len(product.recipe)
    THEN product.recipe[1]
    ELSE "SINK"

next_destination(product) ==
    IF product.current_step < Len(product.recipe)
    THEN product.recipe[product.current_step + 1]
    ELSE "SINK"

(* Seeded fault: the batch-type test is left out *)
eligible_for_machine_notype(st, P, p, machine_id) ==
    IF next_destination(P[p]) # machine_id THEN FALSE
    ELSE IF P[p].size > st.machine_remaining[machine_id] THEN FALSE
    ELSE TRUE

(* Seeded fault: the capacity test is left out *)
eligible_for_machine_nofit(st, P, p, machine_id) ==
    IF next_destination(P[p]) # machine_id THEN FALSE
    ELSE IF st.machine_batch_type[machine_id] # None
            /\ P[p].product_type # st.machine_batch_type[machine_id] THEN FALSE
    ELSE TRUE

eligible_for_machine(st, P, p, machine_id) ==
    IF next_destination(P[p]) # machine_id THEN FALSE
    ELSE IF P[p].size > st.machine_remaining[machine_id] THEN FALSE
    ELSE IF st.machine_batch_type[machine_id] # None
            /\ P[p].product_type # st.machine_batch_type[machine_id] THEN FALSE
    ELSE TRUE

(* min(waiting_products, key = arrival_time): the first minimal element *)
RECURSIVE MinByArrival(_, _, _)
MinByArrival(P, ws, best) ==
    IF ws = << >> THEN best
    ELSE IF P[Head(ws)].arrival_time < P[best].arrival_time
         THEN MinByArrival(P, Tail(ws), Head(ws))
         ELSE MinByArrival(P, Tail(ws), best)

FIFO_selectProduct(P, ws) ==
    IF ws = << >> THEN NoProduct
    ELSE MinByArrival(P, Tail(ws), Head(ws))

(* Seeded fault: key = (-size, -current_step, arrival_time) *)
PriorityKeyLess_sizefirst(a, b) ==
    \/ (0 - a.size) < (0 - b.size)
    \/ /\ a.size = b.size
       /\ \/ (0 - a.current_step) < (0 - b.current_step)
          \/ /\ a.current_step = b.current_step
             /\ a.arrival_time < b.arrival_time

(* key = (-current_step, -size, arrival_time), compared as Python tuples *)
PriorityKeyLess(a, b) ==
    \/ (0 - a.current_step) < (0 - b.current_step)
    \/ /\ a.current_step = b.current_step
       /\ \/ (0 - a.size) < (0 - b.size)
          \/ /\ a.size = b.size
             /\ a.arrival_time < b.arrival_time

(* sorted(...) is stable: an element goes after every element not greater *)
RECURSIVE InsertSorted(_, _, _)
InsertSorted(P, sorted, p) ==
    IF sorted = << >> THEN << p >>
    ELSE IF PriorityKeyLess(P[p], P[Head(sorted)])
         THEN << p >> \o sorted
         ELSE << Head(sorted) >> \o InsertSorted(P, Tail(sorted), p)

RECURSIVE SortedByPriority(_, _, _)
SortedByPriority(P, ws, acc) ==
    IF ws = << >> THEN acc
    ELSE SortedByPriority(P, Tail(ws), InsertSorted(P, acc, Head(ws)))

Priority_selectProduct(P, ws) ==
    IF ws = << >> THEN NoProduct
    ELSE SortedByPriority(P, ws, << >>)[1]

selectProduct(strat, P, ws) ==
    IF strat = STRATEGY_FIFO THEN FIFO_selectProduct(P, ws)
    ELSE Priority_selectProduct(P, ws)

Commit(st, P, rtps, p, target) ==
    [st EXCEPT !.dispatch_product = p,
               !.dispatch_target = target,
               !.routing_remaining = P[p].size * rtps]

(* Seeded fault: the sink scan takes any queued product *)
ScheduleSink_any(st, P, strat, rtps) ==
    LET c == selectProduct(strat, P, st.queue)
    IN  IF c # NoProduct THEN Commit(st, P, rtps, c, "SINK") ELSE st

ScheduleSink(st, P, strat, rtps) ==
    LET waiting_sink == SelectSeq(st.queue, LAMBDA p : next_destination(P[p]) = "SINK")
        c == selectProduct(strat, P, waiting_sink)
    IN  IF waiting_sink # << >> /\ c # NoProduct
        THEN Commit(st, P, rtps, c, "SINK")
        ELSE st

(* Seeded fault: the scan does not stop at the first choice *)
RECURSIVE ScheduleMachines_last(_, _, _, _, _)
ScheduleMachines_last(st, P, strat, rtps, i) ==
    IF i > Len(machine_names)
    THEN IF st.dispatch_product # NoProduct THEN st ELSE ScheduleSink(st, P, strat, rtps)
    ELSE LET m == machine_names[i]
             waiting == SelectSeq(st.queue, LAMBDA p : eligible_for_machine(st, P, p, m))
             c == selectProduct(strat, P, waiting)
         IN  IF st.machine_remaining[m] <= 0 \/ c = NoProduct
             THEN ScheduleMachines_last(st, P, strat, rtps, i + 1)
             ELSE ScheduleMachines_last(Commit(st, P, rtps, c, m), P, strat, rtps, i + 1)

RECURSIVE ScheduleMachines(_, _, _, _, _)
ScheduleMachines(st, P, strat, rtps, i) ==
    IF i > Len(machine_names) THEN ScheduleSink(st, P, strat, rtps)
    ELSE LET m == machine_names[i]
             waiting == SelectSeq(st.queue, LAMBDA p : eligible_for_machine(st, P, p, m))
             c == selectProduct(strat, P, waiting)
         IN  IF st.machine_remaining[m] <= 0
             THEN ScheduleMachines(st, P, strat, rtps, i + 1)
             ELSE IF c # NoProduct
                  THEN Commit(st, P, rtps, c, m)
                  ELSE ScheduleMachines(st, P, strat, rtps, i + 1)

(* Seeded fault: the early return on a dispatch in flight is left out *)
try_schedule_dispatch_noguard(st, P, strat, rtps) ==
    ScheduleMachines(st, P, strat, rtps, 1)

try_schedule_dispatch(st, P, strat, rtps) ==
    IF st.dispatch_product # NoProduct THEN st
    ELSE ScheduleMachines(st, P, strat, rtps, 1)

(* Seeded fault: the batch type is not reset on a full-capacity notification *)
ApplyCapacity_noreset(st, caps) ==
    [st EXCEPT
       !.machine_remaining =
           [m \in Machines |-> IF m \in DOMAIN caps THEN caps[m]
                               ELSE st.machine_remaining[m]]]

(* caps: the in_capacity ports that carry a value (machine id -> value) *)
ApplyCapacity(st, caps) ==
    [st EXCEPT
       !.machine_remaining =
           [m \in Machines |-> IF m \in DOMAIN caps THEN caps[m]
                               ELSE st.machine_remaining[m]],
       !.machine_batch_type =
           [m \in Machines |-> IF m \in DOMAIN caps /\ caps[m] = machine_capacities[m]
                               THEN None
                               ELSE st.machine_batch_type[m]]]

(* prod_in: the value on in_product, a list; the router takes prod[0] *)
ApplyProduct(st, prod_in) ==
    IF prod_in = << >> THEN st
    ELSE [st EXCEPT !.queue = Append(st.queue, prod_in[1])]

(* Seeded fault: the dispatch selection runs before the capacity update *)
Router_extTransition_schedulefirst(st, P, strat, rtps, elapsed, caps, prod_in) ==
    ApplyCapacity(
        try_schedule_dispatch(ApplyProduct(AdvanceRouter(st, elapsed), prod_in),
                              P, strat, rtps),
        caps)

(* Seeded fault: the product is appended before the queue area is updated *)
Router_extTransition_appendfirst(st, P, strat, rtps, elapsed, caps, prod_in) ==
    try_schedule_dispatch(
        ApplyCapacity(AdvanceRouter(ApplyProduct(st, prod_in), elapsed), caps),
        P, strat, rtps)

Router_extTransition(st, P, strat, rtps, elapsed, caps, prod_in) ==
    try_schedule_dispatch(
        ApplyProduct(ApplyCapacity(AdvanceRouter(st, elapsed), caps), prod_in),
        P, strat, rtps)

Router_timeAdvance(st) ==
    IF st.dispatch_product = NoProduct THEN math_inf ELSE st.routing_remaining

(* The dictionary outputFnc returns: the port (by its target) and the list *)
Router_outputFnc(st) ==
    IF st.dispatch_product = NoProduct \/ st.dispatch_target = NoTarget
    THEN [NoOutput EXCEPT !.model = "Router"]
    ELSE [NoOutput EXCEPT !.model = "Router",
                          !.out_target = st.dispatch_target,
                          !.out_product = << st.dispatch_product >>]

(* Seeded fault: queue.pop(0) instead of queue.remove(p) *)
RemoveFirst_pop(q, p) ==
    IF q = << >> THEN q ELSE Tail(q)

RemoveFirst(q, p) ==
    IF \E i \in 1..Len(q) : q[i] = p
    THEN LET k == CHOOSE i \in 1..Len(q) : q[i] = p /\ \A j \in 1..(i - 1) : q[j] # p
         IN  SubSeq(q, 1, k - 1) \o SubSeq(q, k + 1, Len(q))
    ELSE q

(* Seeded fault: no new selection after the emission *)
Router_intTransition_noschedule(st, P, strat, rtps) ==
    LET p == st.dispatch_product
        t == st.dispatch_target
        s0 == AdvanceRouter(st, Router_timeAdvance(st))
        s1 == [s0 EXCEPT !.queue = RemoveFirst(s0.queue, p)]
        s2 == IF t # "SINK"
              THEN [s1 EXCEPT
                      !.machine_batch_type[t] =
                          IF s1.machine_batch_type[t] = None
                          THEN P[p].product_type ELSE @,
                      !.machine_remaining[t] = Max(0, @ - P[p].size)]
              ELSE s1
    IN  [s2 EXCEPT !.dispatch_product = NoProduct,
                   !.dispatch_target = NoTarget,
                   !.routing_remaining = math_inf]

(* Seeded fault: the emission does not record the batch type in the mirror *)
Router_intTransition_notype(st, P, strat, rtps) ==
    LET p == st.dispatch_product
        t == st.dispatch_target
        s0 == AdvanceRouter(st, Router_timeAdvance(st))
        s1 == IF p # NoProduct /\ t # NoTarget
              THEN [s0 EXCEPT !.queue = RemoveFirst(s0.queue, p)]
              ELSE s0
        s2 == IF p # NoProduct /\ t # NoTarget /\ t # "SINK"
              THEN [s1 EXCEPT !.machine_remaining[t] = Max(0, @ - P[p].size)]
              ELSE s1
        s3 == [s2 EXCEPT !.dispatch_product = NoProduct,
                         !.dispatch_target = NoTarget,
                         !.routing_remaining = math_inf]
    IN  try_schedule_dispatch(s3, P, strat, rtps)

Router_intTransition(st, P, strat, rtps) ==
    LET p == st.dispatch_product
        t == st.dispatch_target
        s0 == AdvanceRouter(st, Router_timeAdvance(st))
        s1 == IF p # NoProduct /\ t # NoTarget
              THEN [s0 EXCEPT !.queue = RemoveFirst(s0.queue, p)]
              ELSE s0
        s2 == IF p # NoProduct /\ t # NoTarget /\ t # "SINK"
              THEN [s1 EXCEPT
                      !.machine_batch_type[t] =
                          IF s1.machine_batch_type[t] = None
                          THEN P[p].product_type ELSE @,
                      !.machine_remaining[t] = Max(0, @ - P[p].size)]
              ELSE s1
        s3 == [s2 EXCEPT !.dispatch_product = NoProduct,
                         !.dispatch_target = NoTarget,
                         !.routing_remaining = math_inf]
    IN  try_schedule_dispatch(s3, P, strat, rtps)

----------------------------------------------------------------------------
(* Machine *)

MachineState_init ==
    [products |-> << >>, batch_type |-> None, mode |-> "IDLE",
     first_entry_time |-> None, remaining |-> math_inf, next_event |-> "NONE",
     current_time |-> 0,
     total_processing_time |-> 0, total_occupancy_product |-> 0, num_batches |-> 0]

RECURSIVE SumSizes(_, _)
SumSizes(P, ps) ==
    IF ps = << >> THEN 0 ELSE P[Head(ps)].size + SumSizes(P, Tail(ps))

usedCapacity(ms, P) == SumSizes(P, ms.products)

(* Seeded fault: the full-batch test is left out *)
schedule_waiting_nofull(ms, P, machine_id, mwd) ==
    LET now == ms.current_time
        fet == IF ms.first_entry_time = None \/ ms.first_entry_time = 0
               THEN now ELSE ms.first_entry_time
    IN  [ms EXCEPT !.remaining = Max(0, mwd - (now - fet)),
                   !.next_event = "START"]

(* `first_entry_time or now`: None and 0.0 are both falsy *)
schedule_waiting(ms, P, machine_id, mwd) ==
    LET now == ms.current_time
        used == usedCapacity(ms, P)
        fet == IF ms.first_entry_time = None \/ ms.first_entry_time = 0
               THEN now ELSE ms.first_entry_time
        waited == now - fet
    IN  [ms EXCEPT !.remaining = IF used >= machine_capacities[machine_id] THEN 0
                                 ELSE Max(0, mwd - waited),
                   !.next_event = "START"]

(* Seeded fault: the occupancy accumulator ignores the used capacity *)
start_processing_nooccupancy(ms, P, machine_id) ==
    IF ms.products = << >>
    THEN [ms EXCEPT !.mode = "IDLE", !.remaining = math_inf, !.next_event = "NONE"]
    ELSE LET proc_time == P[ms.products[1]].processing_times[machine_id]
         IN  [ms EXCEPT !.total_processing_time = @ + proc_time,
                        !.total_occupancy_product = @ + proc_time,
                        !.num_batches = @ + 1,
                        !.mode = "PROCESSING",
                        !.remaining = proc_time,
                        !.next_event = "FINISH"]

start_processing(ms, P, machine_id) ==
    IF ms.products = << >>
    THEN [ms EXCEPT !.mode = "IDLE", !.remaining = math_inf, !.next_event = "NONE"]
    ELSE LET proc_time == P[ms.products[1]].processing_times[machine_id]
             used == usedCapacity(ms, P)
         IN  [ms EXCEPT !.total_processing_time = @ + proc_time,
                        !.total_occupancy_product = @ + used * proc_time,
                        !.num_batches = @ + 1,
                        !.mode = "PROCESSING",
                        !.remaining = proc_time,
                        !.next_event = "FINISH"]

(* Seeded fault: the batch-type validation is left out *)
Machine_extFault_nomix(ms, P, machine_id, p) ==
    IF ms.mode = "PROCESSING"
    THEN [kind |-> "busy", machine_id |-> machine_id, product |-> p]
    ELSE NoFault

(* The ValueError extTransition raises on product p, or NoFault *)
Machine_extFault(ms, P, machine_id, p) ==
    IF ms.mode = "PROCESSING"
    THEN [kind |-> "busy", machine_id |-> machine_id, product |-> p]
    ELSE IF ms.batch_type # None /\ P[p].product_type # ms.batch_type
    THEN [kind |-> "mixed", machine_id |-> machine_id, product |-> p]
    ELSE NoFault

(* Seeded fault: the product is appended before the batch type is validated *)
Machine_extTransition_appendfirst(ms, P, machine_id, p, elapsed, mwd) ==
    LET t0 == [ms EXCEPT !.current_time = @ + elapsed]
        s0 == [t0 EXCEPT !.products = Append(@, p)]
        s1 == [s0 EXCEPT !.batch_type = IF @ = None THEN P[p].product_type ELSE @]
        s2 == IF s1.mode = "IDLE"
              THEN [s1 EXCEPT !.mode = "WAITING", !.first_entry_time = s1.current_time]
              ELSE s1
    IN  IF ms.mode = "PROCESSING" THEN t0
        ELSE IF Machine_extFault(ms, P, machine_id, p) # NoFault THEN s0
        ELSE schedule_waiting(s2, P, machine_id, mwd)

Machine_extTransition(ms, P, machine_id, p, elapsed, mwd) ==
    LET s0 == [ms EXCEPT !.current_time = @ + elapsed]
        s1 == [s0 EXCEPT !.batch_type = IF @ = None THEN P[p].product_type ELSE @,
                         !.products = Append(@, p)]
        s2 == IF s1.mode = "IDLE"
              THEN [s1 EXCEPT !.mode = "WAITING", !.first_entry_time = s1.current_time]
              ELSE s1
    IN  IF Machine_extFault(ms, P, machine_id, p) # NoFault THEN s0
        ELSE schedule_waiting(s2, P, machine_id, mwd)

Machine_timeAdvance(ms) ==
    IF ms.mode = "IDLE" THEN math_inf ELSE ms.remaining

(* Seeded fault: FINISH emits the first product of the batch only *)
Machine_outputFnc_first(ms, machine_id) ==
    IF ms.next_event = "START"
    THEN [NoOutput EXCEPT !.model = machine_id, !.out_capacity = << 0 >>]
    ELSE IF ms.next_event = "FINISH"
    THEN [NoOutput EXCEPT !.model = machine_id,
                          !.out_product = SubSeq(ms.products, 1, 1),
                          !.out_capacity = << machine_capacities[machine_id] >>]
    ELSE [NoOutput EXCEPT !.model = machine_id]

Machine_outputFnc(ms, machine_id) ==
    IF ms.next_event = "START"
    THEN [NoOutput EXCEPT !.model = machine_id, !.out_capacity = << 0 >>]
    ELSE IF ms.next_event = "FINISH"
    THEN [NoOutput EXCEPT !.model = machine_id,
                          !.out_product = ms.products,
                          !.out_capacity = << machine_capacities[machine_id] >>]
    ELSE [NoOutput EXCEPT !.model = machine_id]

(* "Advance time" of intTransition: current_time += timeAdvance() *)
AdvanceMachine(ms) ==
    [ms EXCEPT !.current_time = @ + Machine_timeAdvance(ms)]

(* intTransition on START *)
Machine_intStart(ms, P, machine_id) ==
    start_processing(AdvanceMachine(ms), P, machine_id)

(* Seeded fault: first_entry_time is not cleared on FINISH *)
finish_batch_keepentry(ms) ==
    [AdvanceMachine(ms) EXCEPT !.products = << >>, !.batch_type = None,
               !.mode = "IDLE", !.remaining = math_inf, !.next_event = "NONE"]

(* intTransition on FINISH: the state part *)
finish_batch(ms) ==
    [AdvanceMachine(ms) EXCEPT !.products = << >>, !.batch_type = None, !.first_entry_time = None,
               !.mode = "IDLE", !.remaining = math_inf, !.next_event = "NONE"]

(* Seeded fault: the loop steps every product, not only the batch *)
StepBatch_all(P, ps) ==
    [i \in DOMAIN P |-> [P[i] EXCEPT !.current_step = @ + 1]]

(* intTransition on FINISH: p.current_step += 1 for every product of the batch *)
StepBatch(P, ps) ==
    [i \in DOMAIN P |->
        IF \E k \in 1..Len(ps) : ps[k] = i
        THEN [P[i] EXCEPT !.current_step = @ + 1]
        ELSE P[i]]

----------------------------------------------------------------------------
(* Kernel rounds of the coupled model (classic DEVS: one imminent model)  *)

Models == { "Generator", "Router" } \cup Machines

MinTimeNext ==
    CHOOSE t \in { time_next[x] : x \in Models } :
        \A x \in Models : t <= time_next[x]

Imminent(x) ==
    /\ fault = NoFault
    /\ time_next[x] < math_inf
    /\ time_next[x] = MinTimeNext

Config == << strategy, max_wait_duration, routing_time_per_size >>
Aux == << inbox, waiting_products, chosen >>
Hist == << requeued, queue_integral, committed_at, output, deliveries >>

(* The capacity ports of the router that carry a value in this round *)
CapacityInputs(out) ==
    IF out.out_capacity = << >> THEN << >>
    ELSE (out.model :> out.out_capacity[1])

(* The history of a round at time now in which the router made a transition; *)
(* router_fired: the transition was the router's internal one               *)
HistNext(now, router_fired, out, P1, r1) ==
    /\ requeued' = [i \in 1..Len(P1) |->
                      IF InSeq(r1.queue, i) /\ ~InSeq(router.queue, i)
                      THEN now ELSE requeued[i]]
    /\ queue_integral' = queue_integral + Len(router.queue) * (now - clock)
    /\ committed_at' = IF r1.dispatch_product = NoProduct THEN None
                       ELSE IF router_fired \/ router.dispatch_product = NoProduct
                       THEN now
                       ELSE committed_at
    /\ output' = out
    /\ deliveries' = [i \in 1..Len(P1) |->
                        LET before == IF i <= Len(deliveries) THEN deliveries[i] ELSE 0
                        IN  IF /\ out.model = "Router"
                               /\ out.out_target \in Machines
                               /\ InSeq(out.out_product, i)
                            THEN before + 1 ELSE before]

Init ==
    /\ clock = 0
    /\ prods = << >>
    /\ generator = [next_time |-> 0]
    /\ router = RouterState_init
    /\ machine = [m \in Machines |-> MachineState_init]
    /\ sink = << >>
    /\ fault = NoFault
    /\ strategy \in Strategies
    /\ max_wait_duration \in MaxWaitDurations
    /\ routing_time_per_size \in RoutingTimes
    /\ time_last = [x \in Models |-> 0]
    /\ time_next = [x \in Models |-> IF x = "Generator" THEN 0 ELSE math_inf]
    /\ entered = << >>
    /\ requeued = << >>
    /\ queue_integral = 0
    /\ committed_at = None
    /\ output = NoOutput
    /\ deliveries = << >>
    /\ inbox = << >>
    /\ waiting_products = << >>
    /\ chosen = << >>

(* Generator fires: a new product goes to the router *)
GeneratorRound ==
    /\ Imminent("Generator")
    /\ \E g \in 1..Len(gen_types), d \in GenDelays :
         LET now == time_next["Generator"]
             gt == gen_types[g]
             p == Len(prods) + 1
             P1 == Append(prods, Product(gt.product_type, gt.size, gt.recipe,
                                         gt.processing_times, 0))
             out == [NoOutput EXCEPT !.model = "Generator", !.out_product = << p >>]
             r1 == Router_extTransition(router, P1, strategy, routing_time_per_size,
                                        now - time_last["Router"], << >>,
                                        out.out_product)
             nt == IF p >= MaxProducts THEN math_inf ELSE d
         IN  /\ clock' = now
             /\ prods' = P1
             /\ generator' = [next_time |-> nt]
             /\ router' = r1
             /\ entered' = Append(entered, now)
             /\ time_last' = [time_last EXCEPT !["Generator"] = now, !["Router"] = now]
             /\ time_next' = [time_next EXCEPT
                                !["Generator"] = TimeAdd(now, nt),
                                !["Router"] = TimeAdd(now, Router_timeAdvance(r1))]
             /\ HistNext(now, FALSE, out, P1, r1)
    /\ UNCHANGED << machine, sink, fault, Config, Aux >>

(* Router fires with a machine as target *)
RouterToMachine(m) ==
    /\ Imminent("Router")
    /\ router.dispatch_target = m
    /\ LET now == time_next["Router"]
           out == Router_outputFnc(router)
           p == out.out_product[1]
           r1 == Router_intTransition(router, prods, strategy, routing_time_per_size)
           f == Machine_extFault(machine[m], prods, m, p)
           m1 == Machine_extTransition(machine[m], prods, m, p, now - time_last[m],
                                       max_wait_duration)
       IN  /\ clock' = now
           /\ router' = r1
           /\ machine' = [machine EXCEPT ![m] = m1]
           /\ fault' = f
           /\ time_last' = [time_last EXCEPT !["Router"] = now,
                                              ![m] = IF f = NoFault THEN now ELSE @]
           /\ time_next' = [time_next EXCEPT
                              !["Router"] = TimeAdd(now, Router_timeAdvance(r1)),
                              ![m] = IF f = NoFault
                                     THEN TimeAdd(now, Machine_timeAdvance(m1))
                                     ELSE @]
           /\ HistNext(now, TRUE, out, prods, r1)
    /\ UNCHANGED << prods, generator, sink, entered, Config, Aux >>

(* Router fires with the sink as target *)
RouterToSink ==
    /\ Imminent("Router")
    /\ router.dispatch_target = "SINK"
    /\ LET now == time_next["Router"]
           out == Router_outputFnc(router)
           r1 == Router_intTransition(router, prods, strategy, routing_time_per_size)
       IN  /\ clock' = now
           /\ router' = r1
           /\ sink' = sink \o out.out_product
           /\ time_last' = [time_last EXCEPT !["Router"] = now]
           /\ time_next' = [time_next EXCEPT
                              !["Router"] = TimeAdd(now, Router_timeAdvance(r1))]
           /\ HistNext(now, TRUE, out, prods, r1)
    /\ UNCHANGED << prods, generator, machine, fault, entered, Config, Aux >>

(* Machine m fires START: capacity 0 goes to the router *)
MachineStart(m) ==
    /\ Imminent(m)
    /\ machine[m].next_event = "START"
    /\ LET now == time_next[m]
           out == Machine_outputFnc(machine[m], m)
           m1 == Machine_intStart(machine[m], prods, m)
           r1 == Router_extTransition(router, prods, strategy, routing_time_per_size,
                                      now - time_last["Router"],
                                      CapacityInputs(out), out.out_product)
       IN  /\ clock' = now
           /\ machine' = [machine EXCEPT ![m] = m1]
           /\ router' = r1
           /\ time_last' = [time_last EXCEPT ![m] = now, !["Router"] = now]
           /\ time_next' = [time_next EXCEPT
                              ![m] = TimeAdd(now, Machine_timeAdvance(m1)),
                              !["Router"] = TimeAdd(now, Router_timeAdvance(r1))]
           /\ HistNext(now, FALSE, out, prods, r1)
    /\ UNCHANGED << prods, generator, sink, fault, entered, Config, Aux >>

(* Machine m fires FINISH: the batch and the full capacity go to the router *)
MachineFinish(m) ==
    /\ Imminent(m)
    /\ machine[m].next_event = "FINISH"
    /\ LET now == time_next[m]
           out == Machine_outputFnc(machine[m], m)
           m1 == finish_batch(machine[m])
           P1 == StepBatch(prods, machine[m].products)
           r1 == Router_extTransition(router, P1, strategy, routing_time_per_size,
                                      now - time_last["Router"],
                                      CapacityInputs(out), out.out_product)
       IN  /\ clock' = now
           /\ prods' = P1
           /\ machine' = [machine EXCEPT ![m] = m1]
           /\ router' = r1
           /\ time_last' = [time_last EXCEPT ![m] = now, !["Router"] = now]
           /\ time_next' = [time_next EXCEPT
                              ![m] = TimeAdd(now, Machine_timeAdvance(m1)),
                              !["Router"] = TimeAdd(now, Router_timeAdvance(r1))]
           /\ HistNext(now, FALSE, out, P1, r1)
    /\ UNCHANGED << generator, sink, fault, entered, Config, Aux >>

Next ==
    \/ GeneratorRound
    \/ \E m \in Machines : RouterToMachine(m)
    \/ RouterToSink
    \/ \E m \in Machines : MachineStart(m)
    \/ \E m \in Machines : MachineFinish(m)

Spec == Init /\ [][Next]_vars

----------------------------------------------------------------------------
(* Where a product is *)

Occurrences(ps, p) == Cardinality({ k \in 1..Len(ps) : ps[k] = p })
ProductIds == 1..Len(prods)

Places(p) ==
    Occurrences(router.queue, p) + Occurrences(sink, p)
    + Occurrences(machine["A"].products, p) + Occurrences(machine["B"].products, p)

IndexOf(ps, p) == CHOOSE k \in 1..Len(ps) : ps[k] = p

----------------------------------------------------------------------------
(* C1: no loss, no duplication.  While the simulation runs, every product   *)
(* handed to the router is in exactly one place: the router queue, one      *)
(* machine's batch, or the sink.  (After a batch of k products finishes,    *)
(* all k are back in the queue.)                                            *)
C1_NoLossNoDuplication ==
    fault = NoFault => \A p \in ProductIds : Places(p) = 1

(* C2: the router never delivers a product to a machine that is PROCESSING: *)
(* the busy-delivery ValueError is never raised.                            *)
C2_NoBusyDelivery == fault.kind # "busy"

(* C3: race guard.  When machine m notifies capacity 0 (its START fires)    *)
(* while the router holds an in-flight dispatch whose target is m, the      *)
(* dispatch is aborted: after the router's external transition the          *)
(* in-flight slot no longer targets m.                                      *)
C3_RaceGuard ==
    [][ \A m \in Machines :
          ( /\ machine[m].mode = "WAITING"
            /\ machine'[m].mode = "PROCESSING"
            /\ router.dispatch_target = m )
          => router'.dispatch_target # m ]_vars

(* C4: capacity invariant.  For every machine, the sizes of the products in *)
(* its batch sum to at most the machine's capacity.                         *)
C4_CapacityInvariant ==
    \A m \in Machines : usedCapacity(machine[m], prods) <= machine_capacities[m]

(* C4 witness: a machine whose batch of several products fills it exactly *)
C4_Witness ==
    \E m \in Machines :
        /\ Len(machine[m].products) >= 2
        /\ usedCapacity(machine[m], prods) = machine_capacities[m]

(* C6: single in-flight dispatch.  The three fields of the dispatch slot    *)
(* are set together or not at all, and a committed dispatch is replaced     *)
(* only in the round in which the router emits it.                          *)
SlotConsistent ==
    /\ (router.dispatch_product # NoProduct) <=> (router.dispatch_target # NoTarget)
    /\ (router.dispatch_product # NoProduct) <=> (router.routing_remaining < math_inf)

Emitted(p, t) ==
    /\ time_next["Router"] = clock'
    /\ router.dispatch_product = p
    /\ router.dispatch_target = t
    /\ \/ t = "SINK" /\ sink' = Append(sink, p)
       \/ t \in Machines /\ machine'[t].products = Append(machine[t].products, p)
       \/ t \in Machines /\ fault' # NoFault

C6_SingleInFlight ==
    /\ []SlotConsistent
    /\ [][ ( /\ router.dispatch_product # NoProduct
             /\ << router'.dispatch_product, router'.dispatch_target >>
                  # << router.dispatch_product, router.dispatch_target >> )
           => Emitted(router.dispatch_product, router.dispatch_target) ]_vars

(* C6 witness: a dispatch is in flight while another queued product could   *)
(* be committed at once if the slot were free                               *)
C6_Witness ==
    /\ router.dispatch_product # NoProduct
    /\ \E p \in ProductIds :
         /\ p # router.dispatch_product
         /\ InSeq(router.queue, p)
         /\ \/ next_destination(prods[p]) = "SINK"
            \/ \E m \in Machines : eligible_for_machine(router, prods, p, m)

(* C7 as stated: the product held in the in-flight slot is never at the     *)
(* same time a member of the queue.                                         *)
C7_InFlightNotQueued ==
    router.dispatch_product # NoProduct => ~InSeq(router.queue, router.dispatch_product)

(* C7 amended: the in-flight product is a member of the queue (once) until  *)
(* the router emits it; a product leaves the queue exactly in the round     *)
(* that emits it, so every queued product stays in the router until then.   *)
C7_InFlightStaysQueued ==
    /\ [](\A p \in ProductIds : Occurrences(router.queue, p) <= 1)
    /\ [](router.dispatch_product # NoProduct
            => InSeq(router.queue, router.dispatch_product))
    /\ [][ \A p \in ProductIds :
             InSeq(router.queue, p)
             => ( ~InSeq(router'.queue, p) <=> Emitted(p, router.dispatch_target) ) ]_vars

(* C7 witness: a dispatch is in flight with a second product queued behind it *)
C7_Witness ==
    /\ router.dispatch_product # NoProduct
    /\ Len(router.queue) >= 2
    /\ router.queue[1] # router.dispatch_product

(* C9: FIFO correctness.  Under the FIFO policy a newly committed dispatch  *)
(* holds, among the candidates for the same target, the product that first  *)
(* entered the router earliest, ties broken by queue order.                 *)
Candidates(st, P, t) ==
    SelectSeq(st.queue, LAMBDA p : IF t = "SINK" THEN next_destination(P[p]) = "SINK"
                                   ELSE eligible_for_machine(st, P, p, t))

Committed ==
    /\ router'.dispatch_product # NoProduct
    /\ router'.dispatch_product # router.dispatch_product

C9_FIFOCorrectness ==
    [][ (strategy = STRATEGY_FIFO /\ Committed)
        => LET c == router'.dispatch_product
               cands == Candidates(router', prods', router'.dispatch_target)
           IN  \A k \in 1..Len(cands) :
                  \/ entered'[c] < entered'[cands[k]]
                  \/ /\ entered'[c] = entered'[cands[k]]
                     /\ IndexOf(cands, c) <= k ]_vars

(* C11: spoilage.  Whenever the router has made a transition, every queued  *)
(* product with current_step > 0 whose wait in the router (now minus the    *)
(* time it last entered the queue) exceeds the threshold of the machine it  *)
(* just left is marked is_spoiled; a dispatch committed while such a        *)
(* product is queued is a spoiled product going to the sink, even if a      *)
(* machine could take a product; and a spoiled product is never emitted to  *)
(* a machine.  The source sets no threshold: any finite one states the      *)
(* claim, the value below is one the waits of the model exceed.             *)
spoilage_threshold == [m \in Machines |-> 1]

Overdue(P, q, rq, now, p) ==
    /\ InSeq(q, p)
    /\ P[p].current_step > 0
    /\ now - rq[p] > spoilage_threshold[P[p].recipe[P[p].current_step]]

C11_Spoilage ==
    [][ /\ router' # router
           => \A p \in 1..Len(prods') :
                 Overdue(prods', router'.queue, requeued', clock', p)
                 => prods'[p].is_spoiled
        /\ ( /\ Committed
             /\ \E p \in 1..Len(prods') :
                   Overdue(prods', router'.queue, requeued', clock', p) )
           => ( /\ router'.dispatch_target = "SINK"
                /\ prods'[router'.dispatch_product].is_spoiled )
        /\ \A p \in ProductIds :
              ( /\ output'.model = "Router"
                /\ output'.out_product = << p >>
                /\ prods[p].is_spoiled )
              => output'.out_target = "SINK" ]_vars

(* C12: queue-length accounting.  In every state total_queue_area is the    *)
(* integral of the queue length over [0, last_time], each interval weighted *)
(* by the length the queue had during it, and last_time is the time of the  *)
(* router's most recent transition.                                         *)
C12_QueueAreaExact ==
    /\ router.last_time = time_last["Router"]
    /\ router.total_queue_area
         = queue_integral - Len(router.queue) * (clock - router.last_time)

(* C12 witness: area accumulated over intervals with the queue at different *)
(* lengths, external and internal transitions both taken                    *)
C12_Witness ==
    /\ router.total_queue_area >= 3
    /\ Len(router.queue) >= 2
    /\ output.model = "Router"
    /\ router.last_time >= 2

(* C13: a full batch starts immediately.  A delivery that brings a          *)
(* machine's used capacity to its full capacity leaves it with remaining 0  *)
(* and START scheduled for that same instant, whatever is left of           *)
(* max_wait_duration; and a full batch that starts does so at the instant   *)
(* of the delivery that filled it.                                          *)
Delivered(m) ==
    /\ machine[m].mode # "PROCESSING"
    /\ Len(machine'[m].products) = Len(machine[m].products) + 1

C13_FullBatchStartsAtOnce ==
    [][ \A m \in Machines :
          /\ ( /\ Delivered(m)
               /\ usedCapacity(machine'[m], prods') >= machine_capacities[m] )
             => ( /\ machine'[m].mode = "WAITING"
                  /\ machine'[m].remaining = 0
                  /\ machine'[m].next_event = "START"
                  /\ time_next'[m] = clock' )
          /\ ( /\ machine[m].mode = "WAITING"
               /\ usedCapacity(machine[m], prods) >= machine_capacities[m]
               /\ machine'[m].mode = "PROCESSING" )
             => ( /\ clock' = time_last[m]
                  /\ machine'[m].products = machine[m].products ) ]_vars

(* C13 witness: the scenario.  Machine A (capacity 2), two type-0 products  *)
(* of size 1 generated at t=0 and t=1, max_wait_duration 10,                *)
(* routing_time_per_size 0: A is PROCESSING both since t=1.                 *)
C13_Witness ==
    /\ max_wait_duration = 10
    /\ routing_time_per_size = 0
    /\ entered = << 0, 1 >>
    /\ machine["A"].mode = "PROCESSING"
    /\ machine["A"].products = << 1, 2 >>
    /\ machine["A"].first_entry_time = 0
    /\ clock = 1

(* C14: every product the router emits on its sink output has finished its  *)
(* recipe (current_step = len(recipe)) or is spoiled; so has every product  *)
(* the sink holds.                                                          *)
SinkWorthy(product) ==
    \/ product.current_step = Len(product.recipe)
    \/ product.is_spoiled

C14_SinkOnlyFinished ==
    /\ [](\A k \in 1..Len(sink) : SinkWorthy(prods[sink[k]]))
    /\ [][ ( /\ output'.model = "Router"
             /\ output'.out_target = "SINK"
             /\ clock' = time_next["Router"] )
           => \A k \in 1..Len(output'.out_product) :
                 SinkWorthy(prods[output'.out_product[k]]) ]_vars

(* C14 witness: a finished product is at the sink while an unfinished one   *)
(* waits in the queue with no machine able to take it                       *)
C14_Witness ==
    /\ sink # << >>
    /\ output.model = "Router"
    /\ output.out_target = "SINK"
    /\ \E p \in ProductIds :
          /\ InSeq(router.queue, p)
          /\ prods[p].current_step < Len(prods[p].recipe)

(* C15: for every product 0 <= current_step <= len(recipe) at all times;    *)
(* current_step never decreases; it changes only by plus one, and only in   *)
(* the round in which a machine finishes the batch holding the product.     *)
C15_StepMonotone ==
    /\ [](\A p \in ProductIds :
            /\ 0 <= prods[p].current_step
            /\ prods[p].current_step <= Len(prods[p].recipe))
    /\ [][ \A p \in ProductIds :
             \/ prods'[p].current_step = prods[p].current_step
             \/ /\ prods'[p].current_step = prods[p].current_step + 1
                /\ \E m \in Machines :
                      /\ InSeq(machine[m].products, p)
                      /\ machine[m].mode = "PROCESSING"
                      /\ machine[m].next_event = "FINISH"
                      /\ clock' = time_next[m]
                      /\ machine'[m].mode = "IDLE" ]_vars

(* C15 witness: one product has taken every step of its recipe while        *)
(* another is being processed for its first                                 *)
C15_Witness ==
    \E p, q \in ProductIds :
        /\ prods[p].current_step = Len(prods[p].recipe)
        /\ prods[q].current_step = 0
        /\ \E m \in Machines : InSeq(machine[m].products, q)
                               /\ machine[m].mode = "PROCESSING"

(* C16: entry stamps.  A product the router receives is appended to the     *)
(* queue; its router_entry_time is then the current simulation time, on     *)
(* every entry; its arrival_time is the current simulation time on its      *)
(* first entry and is left as it was on a re-entry from a machine.          *)
Received ==
    IF output'.model = "Router" THEN << >> ELSE output'.out_product

C16_EntryStamps ==
    [][ \A k \in 1..Len(Received) :
          LET p == Received[k]
          IN  /\ InSeq(router'.queue, p)
              /\ prods'[p].router_entry_time = clock'
              /\ IF p \in ProductIds
                 THEN prods'[p].arrival_time = prods[p].arrival_time
                 ELSE prods'[p].arrival_time = clock' ]_vars

(* C17: routing duration.  A committed dispatch is emitted exactly          *)
(* size * routing_time_per_size after the instant it was committed, however *)
(* many external inputs the router receives while it is in flight.          *)
C17_RoutingDuration ==
    [][ \A p \in ProductIds :
          ( /\ output'.model = "Router"
            /\ output'.out_product = << p >>
            /\ clock' = time_next["Router"]
            /\ router.dispatch_product = p )
          => clock' = committed_at + prods[p].size * routing_time_per_size ]_vars

(* C19: batch completion.  When machine m's FINISH fires it emits the whole *)
(* batch on its product output with a capacity notification of its full     *)
(* capacity; every product of the batch has current_step one higher, and    *)
(* the router's choice in the same round already reads the new step; the    *)
(* machine is left IDLE with no batch, no batch_type, no first_entry_time,  *)
(* remaining infinite and no pending event.                                 *)
C19_BatchCompletion ==
    [][ \A m \in Machines :
          ( machine[m].mode = "PROCESSING" /\ machine'[m].mode # "PROCESSING" )
          => /\ clock' = time_next[m]
             /\ machine[m].next_event = "FINISH"
             /\ output' = [model |-> m, out_target |-> NoTarget,
                           out_product |-> machine[m].products,
                           out_capacity |-> << machine_capacities[m] >>]
             /\ \A k \in 1..Len(machine[m].products) :
                   LET p == machine[m].products[k]
                   IN  /\ prods'[p].current_step = prods[p].current_step + 1
                       /\ router'.dispatch_product = p /\ router.dispatch_product # p
                          => router'.dispatch_target = next_destination(prods'[p])
             /\ machine'[m].mode = "IDLE"
             /\ machine'[m].products = << >>
             /\ machine'[m].batch_type = None
             /\ machine'[m].first_entry_time = None
             /\ machine'[m].remaining = math_inf
             /\ machine'[m].next_event = "NONE"
             /\ time_next'[m] = math_inf ]_vars

(* C19 witness: a batch of two has just finished and the router has chosen  *)
(* its first product for the next step                                      *)
C19_Witness ==
    /\ output.model \in Machines
    /\ Len(output.out_product) >= 2
    /\ machine[output.model].mode = "IDLE"
    /\ router.dispatch_product = output.out_product[1]
    /\ prods[output.out_product[1]].current_step = 1

(* C20: batch start and utilization statistics.  When machine m's START     *)
(* fires it emits a capacity notification of 0 and enters PROCESSING with   *)
(* remaining = the batch's processing duration on m; in that transition     *)
(* num_batches grows by 1, total_processing_time by the duration and        *)
(* total_occupancy_product by used capacity * duration; no other            *)
(* transition changes the three accumulators.                               *)
Accumulators(ms) ==
    << ms.num_batches, ms.total_processing_time, ms.total_occupancy_product >>

C20_BatchStartStatistics ==
    [][ \A m \in Machines :
          IF machine[m].mode = "WAITING" /\ machine'[m].mode # "WAITING"
          THEN /\ clock' = time_next[m]
               /\ output' = [model |-> m, out_target |-> NoTarget,
                             out_product |-> << >>, out_capacity |-> << 0 >>]
               /\ machine'[m].mode = "PROCESSING"
               /\ machine'[m].next_event = "FINISH"
               /\ \A k \in 1..Len(machine[m].products) :
                     machine'[m].remaining
                       = prods[machine[m].products[k]].processing_times[m]
               /\ machine'[m].num_batches = machine[m].num_batches + 1
               /\ machine'[m].total_processing_time
                    = machine[m].total_processing_time + machine'[m].remaining
               /\ machine'[m].total_occupancy_product
                    = machine[m].total_occupancy_product
                      + usedCapacity(machine[m], prods) * machine'[m].remaining
          ELSE Accumulators(machine'[m]) = Accumulators(machine[m]) ]_vars

(* C20 witness: a machine that is processing its second batch, this one of  *)
(* several products                                                         *)
C20_Witness ==
    \E m \in Machines :
        /\ machine[m].mode = "PROCESSING"
        /\ machine[m].num_batches = 2
        /\ Len(machine[m].products) >= 2
        /\ machine[m].total_occupancy_product > machine[m].total_processing_time

(* C21: ordering within one instant.  When one external transition of the  *)
(* router carries machine m's capacity notification and a product (m's      *)
(* FINISH), the mirror of m holds the notified values when the selection    *)
(* runs: a queued product that fits the notified capacity of m is not       *)
(* passed over because of the stale machine_remaining[m] or                 *)
(* machine_batch_type[m].                                                   *)
EarlierMachines(m) ==
    { machine_names[i] : i \in 1..(IndexOf(machine_names, m) - 1) }

C21_CapacityBeforeSelection ==
    [][ \A m \in Machines :
          ( /\ machine[m].mode = "PROCESSING"
            /\ machine'[m].mode = "IDLE"
            /\ output'.out_capacity # << >>
            /\ output'.out_product # << >>
            /\ router.dispatch_product = NoProduct )
          => /\ router'.machine_remaining[m] = output'.out_capacity[1]
             /\ router'.machine_batch_type[m] = None
             /\ ( \E p \in ProductIds :
                     /\ InSeq(router'.queue, p)
                     /\ prods'[p].current_step < Len(prods'[p].recipe)
                     /\ prods'[p].recipe[prods'[p].current_step + 1] = m
                     /\ prods'[p].size <= output'.out_capacity[1] )
                => router'.dispatch_target \in (EarlierMachines(m) \cup { m }) ]_vars

(* C21 witness: machine m has just finished and, in the same round, the     *)
(* router has committed a product to m                                      *)
C21_Witness ==
    \E m \in Machines :
        /\ output.model = m
        /\ output.out_product # << >>
        /\ machine[m].mode = "IDLE"
        /\ router.dispatch_target = m
        /\ committed_at = clock

(* C22: dispatch selection order.  A committed dispatch targets the first   *)
(* machine in declaration order for which the queue holds an eligible       *)
(* product; it targets the sink only if no queued product is eligible for   *)
(* any machine; and a router transition that leaves no dispatch in flight   *)
(* leaves neither a machine-eligible nor a sink-bound product queued.       *)
NothingToDispatch(st, P) ==
    /\ \A m \in Machines : Candidates(st, P, m) = << >>
    /\ Candidates(st, P, "SINK") = << >>

C22_SelectionOrder ==
    [][ /\ Committed
           => LET t == router'.dispatch_target
              IN  /\ InSeq(Candidates(router', prods', t), router'.dispatch_product)
                  /\ IF t = "SINK"
                     THEN \A m \in Machines : Candidates(router', prods', m) = << >>
                     ELSE /\ t \in Machines
                          /\ \A e \in EarlierMachines(t) :
                                Candidates(router', prods', e) = << >>
        /\ ( router' # router /\ router'.dispatch_product = NoProduct )
           => NothingToDispatch(router', prods') ]_vars

(* C22 witness: a dispatch just committed to the second machine while a     *)
(* product bound for the first machine is queued but not eligible           *)
C22_Witness ==
    /\ router.dispatch_target = machine_names[2]
    /\ committed_at = clock
    /\ \E p \in ProductIds :
          /\ InSeq(router.queue, p)
          /\ next_destination(prods[p]) = machine_names[1]

(* C23: eligibility at commit.  When the router commits product p to        *)
(* machine m, then at that instant recipe[current_step] of p is m,          *)
(* p.size <= machine_remaining[m], and machine_batch_type[m] is None or     *)
(* p's product_type.                                                        *)
C23_EligibleAtCommit ==
    [][ ( Committed /\ router'.dispatch_target # "SINK" )
        => LET p == router'.dispatch_product
               m == router'.dispatch_target
           IN  /\ m \in Machines
               /\ prods'[p].current_step < Len(prods'[p].recipe)
               /\ prods'[p].recipe[prods'[p].current_step + 1] = m
               /\ prods'[p].size <= router'.machine_remaining[m]
               /\ \/ router'.machine_batch_type[m] = None
                  \/ router'.machine_batch_type[m] = prods'[p].product_type ]_vars

(* C23 witness: a dispatch just committed to a machine that already holds   *)
(* part of a batch                                                          *)
C23_Witness ==
    \E m \in Machines :
        /\ router.dispatch_target = m
        /\ committed_at = clock
        /\ router.machine_batch_type[m] # None
        /\ router.machine_remaining[m] < machine_capacities[m]

(* C24: mirror consistency.  After every round, for every machine m: if m  *)
(* is IDLE the router holds machine_remaining[m] = capacity[m] and no batch *)
(* type for m; if m is WAITING it holds capacity[m] minus the sizes of m's  *)
(* batch and m's batch_type; if m is PROCESSING it holds 0.  Hence          *)
(* 0 <= machine_remaining[m] <= capacity[m].                                *)
C24_MirrorConsistency ==
    \A m \in Machines :
        /\ machine[m].mode = "IDLE"
           => /\ router.machine_remaining[m] = machine_capacities[m]
              /\ router.machine_batch_type[m] = None
        /\ machine[m].mode = "WAITING"
           => /\ router.machine_remaining[m]
                   = machine_capacities[m] - usedCapacity(machine[m], prods)
              /\ router.machine_batch_type[m] = machine[m].batch_type
        /\ machine[m].mode = "PROCESSING"
           => router.machine_remaining[m] = 0
        /\ 0 <= router.machine_remaining[m]
        /\ router.machine_remaining[m] <= machine_capacities[m]

(* C24 witness: one machine WAITING with a partly filled batch, the other   *)
(* IDLE again after a batch                                                 *)
C24_Witness ==
    \E m, n \in Machines :
        /\ machine[m].mode = "WAITING"
        /\ usedCapacity(machine[m], prods) < machine_capacities[m]
        /\ machine[n].mode = "IDLE"
        /\ machine[n].num_batches >= 1

(* C25: the router is work-conserving.  After every router transition, if   *)
(* no dispatch is in flight then no queued product is eligible for any      *)
(* machine and no queued product has the sink as destination.               *)
C25_WorkConserving ==
    router.dispatch_product = NoProduct
    => \A k \in 1..Len(router.queue) :
          LET product == prods[router.queue[k]]
          IN  /\ product.current_step < Len(product.recipe)
              /\ LET m == product.recipe[product.current_step + 1]
                 IN  \/ product.size > router.machine_remaining[m]
                     \/ /\ router.machine_batch_type[m] # None
                        /\ router.machine_batch_type[m] # product.product_type

(* C25 witness: the router is idle after an emission while products wait    *)
(* for machines that cannot take them                                       *)
C25_Witness ==
    /\ router.dispatch_product = NoProduct
    /\ Len(router.queue) >= 2
    /\ output.model = "Router"

----------------------------------------------------------------------------
(* C29: recipe order.  Every product is delivered to machines strictly in  *)
(* the order of its recipe, once per recipe step: the k-th machine delivery *)
(* of a product (k from 0) is to recipe[k] and happens while current_step   *)
(* is k, and no product is delivered to a machine once its current_step     *)
(* has reached Len(recipe).                                                 *)
InBatches(p) ==
    Occurrences(machine["A"].products, p) + Occurrences(machine["B"].products, p)

C29_RecipeOrder ==
    /\ [][ ( output'.model = "Router" /\ output'.out_target \in Machines )
           => LET p == output'.out_product[1]
                  k == deliveries[p]
              IN  /\ prods[p].current_step = k
                  /\ k < Len(prods[p].recipe)
                  /\ output'.out_target = prods[p].recipe[k + 1]
                  /\ deliveries'[p] = k + 1 ]_vars
    /\ [](\A p \in ProductIds :
            /\ deliveries[p] <= Len(prods[p].recipe)
            /\ deliveries[p] = prods[p].current_step + InBatches(p)
                               + (IF fault.product = p THEN 1 ELSE 0))

(* C29 witness: a product has just been delivered to the second machine of  *)
(* its recipe, after the first machine processed it                         *)
C29_Witness ==
    /\ output.model = "Router"
    /\ output.out_target \in Machines
    /\ LET p == output.out_product[1]
       IN  /\ deliveries[p] = 2
           /\ prods[p].current_step = 1
           /\ output.out_target = prods[p].recipe[2]
           /\ InSeq(machine[output.out_target].products, p)

(* C30: no type mixing in the coupled model.  The router never delivers to *)
(* a machine a product whose product_type differs from the type of the      *)
(* batch the machine holds: the mixed-types ValueError is never raised,     *)
(* also for a dispatch committed before and delivered after the machine     *)
(* finished a batch and reset.                                              *)
C30_NoTypeMixing ==
    /\ [](fault.kind # "mixed")
    /\ [][ ( output'.model = "Router" /\ output'.out_target \in Machines )
           => LET p == output'.out_product[1]
                  m == output'.out_target
              IN  machine[m].batch_type \in { None, prods[p].product_type } ]_vars

(* C30 witness: a dispatch to machine m, committed before m finished its    *)
(* last batch, is still in flight after m finished and reset                *)
C30_Witness ==
    \E m \in Machines :
        /\ fault = NoFault
        /\ router.dispatch_target = m
        /\ machine[m].mode = "IDLE"
        /\ machine[m].num_batches >= 1
        /\ machine[m].batch_type = None
        /\ committed_at # None
        /\ committed_at < time_last[m]

(* The coupled model under weak fairness of the kernel: as long as some     *)
(* model is imminent, the simulation loop processes a round                 *)
SpecFair == Spec /\ WF_vars(Next)

Finished(p) ==
    /\ p <= Len(prods)
    /\ InSeq(sink, p)
    /\ prods[p].current_step = Len(prods[p].recipe)

Quiescent ==
    /\ router.queue = << >>
    /\ router.dispatch_product = NoProduct
    /\ \A m \in Machines : machine[m].mode = "IDLE"

(* C28: progress.  The generator produces finitely many products, each of   *)
(* a size that fits every machine of its recipe; under weak fairness of the *)
(* kernel every product accepted by the router is eventually in the sink    *)
(* with current_step = Len(recipe), and from then on the queue is empty, no *)
(* dispatch is in flight and every machine is IDLE.                         *)
C28_Progress ==
    <>[]( /\ Len(prods) = MaxProducts
          /\ \A p \in ProductIds : Finished(p)
          /\ Quiescent )

(* The Machine on its own: the environment delivers any product to any     *)
(* machine at any time, as a router without the eligibility test would.    *)

MaxEnvProducts == 3
EnvDelays == { 0, 1, 2 }

(* The products the environment owns: the generator's types in turn *)
EnvHeap ==
    [i \in 1..MaxEnvProducts |->
        LET gt == gen_types[((i - 1) % Len(gen_types)) + 1]
        IN  Product(gt.product_type, gt.size, gt.recipe, gt.processing_times, 0)]

InitMachine ==
    /\ clock = 0
    /\ prods = EnvHeap
    /\ generator = [next_time |-> math_inf]
    /\ router = RouterState_init
    /\ machine = [m \in Machines |-> MachineState_init]
    /\ sink = << >>
    /\ fault = NoFault
    /\ strategy = STRATEGY_FIFO
    /\ max_wait_duration \in MaxWaitDurations
    /\ routing_time_per_size = 0
    /\ time_last = [x \in Models |-> 0]
    /\ time_next = [x \in Models |-> math_inf]
    /\ entered = << >>
    /\ requeued = << >>
    /\ queue_integral = 0
    /\ committed_at = None
    /\ output = NoOutput
    /\ deliveries = << >>
    /\ inbox = << >>
    /\ waiting_products = << >>
    /\ chosen = << >>

Closed == << generator, router, sink, strategy, max_wait_duration,
             routing_time_per_size, entered, requeued, queue_integral,
             committed_at, deliveries, waiting_products, chosen >>

(* The kernel routes a product no machine has processed yet to machine m's  *)
(* in_product port at clock + d                                             *)
EnvSend(m, p, d) ==
    /\ fault = NoFault
    /\ inbox = << >>
    /\ \A x \in Machines : ~InSeq(machine[x].products, p)
    /\ prods[p].current_step = 0
    /\ clock + d <= MinTimeNext
    /\ clock' = clock + d
    /\ inbox' = << [machine_id |-> m, product |-> p] >>
    /\ UNCHANGED << prods, machine, fault, time_last, time_next, output, Closed >>

(* Machine.extTransition on the routed product *)
MachineReceive ==
    /\ inbox # << >>
    /\ LET m == inbox[1].machine_id
           p == inbox[1].product
           f == Machine_extFault(machine[m], prods, m, p)
           m1 == Machine_extTransition(machine[m], prods, m, p, clock - time_last[m],
                                       max_wait_duration)
       IN  /\ machine' = [machine EXCEPT ![m] = m1]
           /\ fault' = f
           /\ time_last' = [time_last EXCEPT ![m] = IF f = NoFault THEN clock ELSE @]
           /\ time_next' = [time_next EXCEPT
                              ![m] = IF f = NoFault
                                     THEN TimeAdd(clock, Machine_timeAdvance(m1))
                                     ELSE @]
    /\ inbox' = << >>
    /\ UNCHANGED << clock, prods, output, Closed >>

(* Machine.intTransition on START *)
OpenStart(m) ==
    /\ Imminent(m)
    /\ inbox = << >>
    /\ machine[m].next_event = "START"
    /\ LET m1 == Machine_intStart(machine[m], prods, m)
       IN  /\ clock' = time_next[m]
           /\ machine' = [machine EXCEPT ![m] = m1]
           /\ output' = Machine_outputFnc(machine[m], m)
           /\ time_last' = [time_last EXCEPT ![m] = time_next[m]]
           /\ time_next' = [time_next EXCEPT
                              ![m] = TimeAdd(time_next[m], Machine_timeAdvance(m1))]
    /\ UNCHANGED << prods, fault, inbox, Closed >>

(* Machine.intTransition on FINISH *)
OpenFinish(m) ==
    /\ Imminent(m)
    /\ inbox = << >>
    /\ machine[m].next_event = "FINISH"
    /\ LET m1 == finish_batch(machine[m])
       IN  /\ clock' = time_next[m]
           /\ prods' = StepBatch(prods, machine[m].products)
           /\ machine' = [machine EXCEPT ![m] = m1]
           /\ output' = Machine_outputFnc(machine[m], m)
           /\ time_last' = [time_last EXCEPT ![m] = time_next[m]]
           /\ time_next' = [time_next EXCEPT
                              ![m] = TimeAdd(time_next[m], Machine_timeAdvance(m1))]
    /\ UNCHANGED << fault, inbox, Closed >>

NextMachine ==
    \/ \E m \in Machines, p \in ProductIds, d \in EnvDelays : EnvSend(m, p, d)
    \/ MachineReceive
    \/ \E m \in Machines : OpenStart(m)
    \/ \E m \in Machines : OpenFinish(m)

SpecMachine == InitMachine /\ [][NextMachine]_vars

(* C5: batch-type invariant.  For every machine, every product of its batch *)
(* has the machine's batch_type as product_type, whatever is delivered.     *)
C5_BatchTypeInvariant ==
    \A m \in Machines :
        \A k \in 1..Len(machine[m].products) :
            prods[machine[m].products[k]].product_type = machine[m].batch_type

(* C5 witness: a batch of several products while a product of the other    *)
(* type is on the way to the same machine                                   *)
C5_Witness ==
    /\ inbox # << >>
    /\ Len(machine[inbox[1].machine_id].products) >= 2
    /\ prods[inbox[1].product].product_type # machine[inbox[1].machine_id].batch_type

(* C18: wait-time recomputation.  After every delivery to a machine that    *)
(* is IDLE or WAITING, remaining = 0 if used capacity >= full capacity,     *)
(* else max(0, max_wait_duration - (now - first_entry_time)), for every     *)
(* value of first_entry_time, 0 included.                                   *)
C18_WaitRecomputation ==
    [][ \A m \in Machines :
          Delivered(m)
          => LET ms == machine'[m]
                 waited == clock' - ms.first_entry_time
             IN  /\ ms.first_entry_time # None
                 /\ ms.remaining = IF usedCapacity(ms, prods') >= machine_capacities[m]
                                   THEN 0
                                   ELSE Max(0, max_wait_duration - waited) ]_vars

(* C26: machine state consistency.  In every machine state: mode = IDLE     *)
(* iff the batch is empty iff batch_type is None iff first_entry_time is    *)
(* None iff no event is pending (time advance infinite); mode = WAITING iff *)
(* the pending event is START; mode = PROCESSING iff it is FINISH; and mode *)
(* moves only IDLE -> WAITING -> PROCESSING -> IDLE.                        *)
C26_MachineStateConsistency ==
    /\ [](\A m \in Machines :
            LET ms == machine[m]
            IN  /\ (ms.mode = "IDLE") <=> (ms.products = << >>)
                /\ (ms.mode = "IDLE") <=> (ms.batch_type = None)
                /\ (ms.mode = "IDLE") <=> (ms.first_entry_time = None)
                /\ (ms.mode = "IDLE") <=> (ms.next_event = "NONE")
                /\ (ms.mode = "IDLE") <=> (Machine_timeAdvance(ms) = math_inf)
                /\ (ms.mode = "IDLE") <=> (time_next[m] = math_inf)
                /\ (ms.mode = "WAITING") <=> (ms.next_event = "START")
                /\ (ms.mode = "PROCESSING") <=> (ms.next_event = "FINISH")
                /\ ms.mode \in { "IDLE", "WAITING", "PROCESSING" })
    /\ [][ \A m \in Machines :
             \/ machine'[m].mode = machine[m].mode
             \/ machine[m].mode = "IDLE" /\ machine'[m].mode = "WAITING"
             \/ machine[m].mode = "WAITING" /\ machine'[m].mode = "PROCESSING"
             \/ machine[m].mode = "PROCESSING" /\ machine'[m].mode = "IDLE" ]_vars

(* C26 witness: a machine that has been round the cycle and is WAITING      *)
(* again while the other is PROCESSING                                      *)
C26_Witness ==
    \E m, n \in Machines :
        /\ machine[m].mode = "WAITING"
        /\ machine[m].num_batches >= 1
        /\ machine[n].mode = "PROCESSING"

(* C27: bounded batching wait.  A batch whose first product entered the     *)
(* machine at t0 starts processing no later than t0 + max_wait_duration,    *)
(* however many products are delivered while the machine is WAITING.        *)
C27_BoundedWait ==
    [][ \A m \in Machines :
          ( machine[m].mode = "WAITING" /\ machine'[m].mode = "PROCESSING" )
          => clock' <= machine[m].first_entry_time + max_wait_duration ]_vars

(* C8: type-mixing violation.  A WAITING machine that receives a product of *)
(* another type than its batch_type halts with the mixed-types fault and    *)
(* its state (products, batch_type, mode, first_entry_time, remaining,      *)
(* pending event) is left as it was.                                        *)
C8_TypeMixingFault ==
    [][ \A m \in Machines :
          ( /\ inbox # << >>
            /\ inbox[1].machine_id = m
            /\ machine[m].mode = "WAITING"
            /\ prods[inbox[1].product].product_type # machine[m].batch_type )
          => ( /\ fault' = [kind |-> "mixed", machine_id |-> m,
                            product |-> inbox[1].product]
               /\ machine'[m].products = machine[m].products
               /\ machine'[m].batch_type = machine[m].batch_type
               /\ machine'[m].mode = machine[m].mode
               /\ machine'[m].first_entry_time = machine[m].first_entry_time
               /\ machine'[m].remaining = machine[m].remaining
               /\ machine'[m].next_event = machine[m].next_event
               /\ time_next'[m] = time_next[m] ) ]_vars

(* C8 witness: the fault was raised by a machine that is WAITING *)
C8_Witness ==
    /\ fault.kind = "mixed"
    /\ machine[fault.machine_id].mode = "WAITING"
    /\ machine[fault.machine_id].products # << >>

----------------------------------------------------------------------------
(* _selectProduct on its own: any list of products, either policy *)

MaxWaiting == 3
Steps == { 0, 1 }
Sizes == { 1, 2 }
ArrivalTimes == { 0, 5 }

AnyProduct ==
    { [Product(0, sz, << "A", "B" >>, gen_types[1].processing_times, at)
          EXCEPT !.current_step = st] :
      sz \in Sizes, at \in ArrivalTimes, st \in Steps }

InitSelect ==
    /\ \E k \in 0..MaxWaiting :
         /\ prods \in [1..k -> AnyProduct]
         /\ waiting_products = [i \in 1..k |-> i]
    /\ chosen = << >>
    /\ strategy \in Strategies
    /\ clock = 0
    /\ generator = [next_time |-> math_inf]
    /\ router = RouterState_init
    /\ machine = [m \in Machines |-> MachineState_init]
    /\ sink = << >>
    /\ fault = NoFault
    /\ max_wait_duration = 0
    /\ routing_time_per_size = 0
    /\ time_last = [x \in Models |-> 0]
    /\ time_next = [x \in Models |-> math_inf]
    /\ entered = << >>
    /\ requeued = << >>
    /\ queue_integral = 0
    /\ committed_at = None
    /\ output = NoOutput
    /\ deliveries = << >>
    /\ inbox = << >>

SelectStep ==
    /\ chosen = << >>
    /\ chosen' = << selectProduct(strategy, prods, waiting_products) >>
    /\ UNCHANGED << clock, time_last, time_next, prods, generator, router, machine, sink, fault,
                    strategy, max_wait_duration, routing_time_per_size, entered,
                    Hist, inbox, waiting_products >>

NextSelect == SelectStep

SpecSelect == InitSelect /\ [][NextSelect]_vars

====
